---- MODULE Spec2Model ----
(***************************************************************************)
(* Local order book reconstruction of okx-rs: the price ladder             *)
(* (src/book/mod.rs, OrderBook) and the sequence reconciler that feeds it  *)
(* (src/book/book_manager.rs, BookManager::handle_book_update).            *)
(*                                                                         *)
(* Decimals are modelled as integers (rust_decimal compares by numeric     *)
(* value, so "2" and "2.0" are the same key).  Option<T> is a sequence of  *)
(* length 0 (None) or 1 (Some(x)).  A map is a function whose domain is    *)
(* the set of stored keys.                                                 *)
(***************************************************************************)
EXTENDS Integers, Sequences, FiniteSets, TLC

\* ------------------------------------------------------------------ bounds
MaxSeq == 2
MaxPrice == 3
MaxSize == 2
MaxTs == 1
MaxLevels == 2

\* ------------------------------------------------------------------ Option
None == <<>>
Some(x) == <<x>>
IsSome(o) == Len(o) = 1
Unwrap(o) == o[1]

\* --------------------------------------------------- decimal parsing (str)
MaxDecimal == IF MaxPrice > MaxSize THEN MaxPrice ELSE MaxSize
Decimals == (-1)..MaxDecimal

\* The spellings of a decimal value that the feed may use.
Spellings(n) == {ToString(n), ToString(n) \o ".0"}

\* Decimal::from_str on the strings of the model: Some(value) for a decimal
\* string, None (Err) for any other.
DecimalStrs == UNION {Spellings(n) : n \in Decimals}
FromStr == [s \in DecimalStrs |-> CHOOSE n \in Decimals : s \in Spellings(n)]

\* str::parse::<Decimal>()
parse(s) == IF s \in DecimalStrs THEN Some(FromStr[s]) ELSE None

\* ------------------------------------------------------------ the ladder
Buy == "Buy"
Sell == "Sell"
Sides == {Buy, Sell}

EmptyMap == [k \in {} |-> 0]
EmptyBook == [bids |-> EmptyMap, asks |-> EmptyMap]

\* BTreeMap::entry(k).or_insert_with(v) followed by `.size = size`
Upsert(m, k, v) == [x \in (DOMAIN m) \cup {k} |-> IF x = k THEN v ELSE m[x]]

\* BTreeMap::remove(k)
Remove(m, k) == [x \in (DOMAIN m) \ {k} |-> m[x]]

\* BTreeMap::retain(f): Keep is the set of keys f accepts
Retain(m, Keep) == [x \in (DOMAIN m) \cap Keep |-> m[x]]

\* update_level without `partial_level.size = size`: a level already stored
\* keeps the size it has
update_level_insert_only(b, price, size, side) ==
  IF side = Buy
    THEN [b EXCEPT !.bids = Upsert(b.bids, price,
            IF price \in DOMAIN b.bids THEN b.bids[price] ELSE size)]
    ELSE [b EXCEPT !.asks = Upsert(b.asks, price,
            IF price \in DOMAIN b.asks THEN b.asks[price] ELSE size)]

\* update_level adding the size to the one stored instead of replacing it
update_level_accumulate(b, price, size, side) ==
  IF side = Buy
    THEN [b EXCEPT !.bids = Upsert(b.bids, price,
            IF price \in DOMAIN b.bids THEN b.bids[price] + size ELSE size)]
    ELSE [b EXCEPT !.asks = Upsert(b.asks, price,
            IF price \in DOMAIN b.asks THEN b.asks[price] + size ELSE size)]

update_level(b, price, size, side) ==
  IF side = Buy
    THEN [b EXCEPT !.bids = Upsert(b.bids, price, size)]
    ELSE [b EXCEPT !.asks = Upsert(b.asks, price, size)]

\* remove_level with the two arms swapped: the level goes from the other side
remove_level_other_side(b, price, side) ==
  IF side = Buy
    THEN [b EXCEPT !.asks = Remove(b.asks, price)]
    ELSE [b EXCEPT !.bids = Remove(b.bids, price)]

remove_level(b, price, side) ==
  IF side = Buy
    THEN [b EXCEPT !.bids = Remove(b.bids, price)]
    ELSE [b EXCEPT !.asks = Remove(b.asks, price)]

\* handle_bbo with strict comparisons: the level at the reported price goes too
handle_bbo_strict(b, price, size, side) ==
  IF side = Buy
    THEN [b EXCEPT !.bids = Retain(b.bids, {k \in DOMAIN b.bids : k < price})]
    ELSE [b EXCEPT !.asks = Retain(b.asks, {k \in DOMAIN b.asks : k > price})]

\* handle_bbo with both comparisons turned round: it drops the levels worse
\* than the reported one
handle_bbo_worse(b, price, size, side) ==
  IF side = Buy
    THEN [b EXCEPT !.bids = Retain(b.bids, {k \in DOMAIN b.bids : k >= price})]
    ELSE [b EXCEPT !.asks = Retain(b.asks, {k \in DOMAIN b.asks : k <= price})]

handle_bbo(b, price, size, side) ==
  IF side = Buy
    THEN [b EXCEPT !.bids = Retain(b.bids, {k \in DOMAIN b.bids : k <= price})]
    ELSE [b EXCEPT !.asks = Retain(b.asks, {k \in DOMAIN b.asks : k >= price})]

\* handle_level with `size < 0` for `size <= 0`: a zero size is stored
handle_level_zero_kept(b, price, size, side, bbo) ==
  LET b1 == IF size < 0 THEN remove_level(b, price, side)
                        ELSE update_level(b, price, size, side)
  IN  IF bbo THEN handle_bbo(b1, price, size, side) ELSE b1

handle_level(b, price, size, side, bbo) ==
  LET b1 == IF size <= 0 THEN remove_level(b, price, side)
                         ELSE update_level(b, price, size, side)
  IN  IF bbo THEN handle_bbo(b1, price, size, side) ELSE b1

\* best_bid over a map keyed by the price itself, not by Reverse(price): its
\* first entry is the lowest bid
best_bid_unreversed(b) ==
  IF DOMAIN b.bids = {} THEN None
  ELSE LET p == CHOOSE k \in DOMAIN b.bids : \A j \in DOMAIN b.bids : k <= j
       IN  Some(<<p, b.bids[p]>>)

\* first entry of bids, which the map orders by Reverse(price)
best_bid(b) ==
  IF DOMAIN b.bids = {} THEN None
  ELSE LET p == CHOOSE k \in DOMAIN b.bids : \A j \in DOMAIN b.bids : j <= k
       IN  Some(<<p, b.bids[p]>>)

\* first entry of asks, ordered by price
best_ask(b) ==
  IF DOMAIN b.asks = {} THEN None
  ELSE LET p == CHOOSE k \in DOMAIN b.asks : \A j \in DOMAIN b.asks : k <= j
       IN  Some(<<p, b.asks[p]>>)

\* crossed with `>=` for `>`: equal best prices count as crossed
crossed_or_equal(b) ==
  IF IsSome(best_bid(b)) /\ IsSome(best_ask(b))
    THEN Unwrap(best_bid(b))[1] >= Unwrap(best_ask(b))[1]
    ELSE FALSE

crossed(b) ==
  IF IsSome(best_bid(b)) /\ IsSome(best_ask(b))
    THEN Unwrap(best_bid(b))[1] > Unwrap(best_ask(b))[1]
    ELSE FALSE

\* ------------------------------------------------------- the wire shapes
BBO == "BBO"
Diff == "Diff"
Snapshot == "Snapshot"
BookUpdateType == {BBO, Diff, Snapshot}

\* Levels is deserialized untagged: a one-element array is Depth1, a
\* five-element array Depth5, anything else Depths.
LevelsVariant(ls) ==
  IF Len(ls) = 1 THEN "Depth1" ELSE IF Len(ls) = 5 THEN "Depth5" ELSE "Depths"

Level(p, s) == [price |-> p, size |-> s]

\* BookUpdate { seq_id, prev_seq_id, asks, bids, ts }: seq_id is read as a Seq
\* (i64), prev_seq_id and ts are Options, checksum is never read
BookUpdate(seq, prev, ts, bids, asks) ==
  [seq_id |-> seq, prev_seq_id |-> prev, ts |-> ts, bids |-> bids, asks |-> asks]

\* ------------------------------------------------------- the reconciler
\* #[derive(Default)] BookManager
NewBookManager == [book |-> EmptyBook, last_seq |-> None, last_exch_ts |-> None]

\* One call's result: the manager's fields after the call, the value returned
\* ("true"/"false") or "panic", and the source line that decided should_update
\* or raised the panic.
Outcome(b, seq, ts, ret, line) ==
  [book |-> b, last_seq |-> seq, last_exch_ts |-> ts, ret |-> ret, pc |-> line]

\* the loop with `true` for the bbo argument: every level clamps its side
RECURSIVE apply_levels_clamping(_, _, _, _)
apply_levels_clamping(b, ls, side, i) ==
  IF i > Len(ls) THEN [book |-> b, panic |-> FALSE]
  ELSE LET price == parse(ls[i].price)
           size == parse(ls[i].size)
       IN  IF price = None \/ size = None
             THEN [book |-> b, panic |-> TRUE]
             ELSE apply_levels_clamping(
                    handle_level(b, Unwrap(price), Unwrap(size), side, TRUE),
                    ls, side, i + 1)

\* `for level in levels.iter() { book.handle_level(price.parse().unwrap(),
\* size.parse().unwrap(), side, false) }`, from the i-th level on; panic is set
\* when an unwrap() fails, with the levels before it already applied.
RECURSIVE apply_levels(_, _, _, _)
apply_levels(b, ls, side, i) ==
  IF i > Len(ls) THEN [book |-> b, panic |-> FALSE]
  ELSE LET price == parse(ls[i].price)
           size == parse(ls[i].size)
       IN  IF price = None \/ size = None
             THEN [book |-> b, panic |-> TRUE]
             ELSE apply_levels(handle_level(b, Unwrap(price), Unwrap(size), side, FALSE),
                               ls, side, i + 1)

\* the `match levels { Levels::Depth1(l) => handle_level(l[0].., true), _ => unreachable!() }`
\* of one side; line is the line of the unreachable!().
apply_bbo(b, ls, side, line) ==
  IF LevelsVariant(ls) # "Depth1" THEN [book |-> b, panic |-> TRUE, pc |-> line]
  ELSE LET price == parse(ls[1].price)
           size == parse(ls[1].size)
       IN  IF price = None \/ size = None
             THEN [book |-> b, panic |-> TRUE, pc |-> line - 6]
             ELSE [book |-> handle_level(b, Unwrap(price), Unwrap(size), side, TRUE),
                   panic |-> FALSE, pc |-> line]

\* lines 28-44: the line that decides should_update
decide(self, update, update_type) ==
  IF IsSome(self.last_seq)
    THEN IF update.seq_id = Unwrap(self.last_seq) THEN 33
         ELSE IF update.seq_id > Unwrap(self.last_seq) THEN 36
         ELSE 39
    ELSE 43

\* should_update with a Snapshot taken whatever its seq_id
should_update_any_snapshot(self, update, update_type) ==
  LET line == decide(self, update, update_type)
  IN  update_type = Snapshot \/ line = 36

should_update(self, update, update_type) ==
  LET line == decide(self, update, update_type)
  IN  IF line = 43 THEN update_type = Snapshot ELSE line = 36

\* lines 46-106, entered when should_update is true
commit(self, update, update_type, debug, line) ==
  LET seq == Some(update.seq_id) IN
  IF update.ts = None
    THEN Outcome(self.book, seq, self.last_exch_ts, "panic", 55)
  ELSE IF update_type = BBO
    THEN LET bb == apply_bbo(self.book, update.bids, Buy, 69) IN
         IF bb.panic THEN Outcome(bb.book, seq, update.ts, "panic", bb.pc)
         ELSE LET ba == apply_bbo(bb.book, update.asks, Sell, 81) IN
              IF ba.panic THEN Outcome(ba.book, seq, update.ts, "panic", ba.pc)
              ELSE IF debug /\ crossed(ba.book)
                THEN Outcome(ba.book, seq, update.ts, "panic", 105)
                ELSE Outcome(ba.book, seq, update.ts, "true", line)
    ELSE LET bb == apply_levels(self.book, update.bids, Buy, 1) IN
         IF bb.panic THEN Outcome(bb.book, seq, update.ts, "panic", 86)
         ELSE LET ba == apply_levels(bb.book, update.asks, Sell, 1) IN
              IF ba.panic THEN Outcome(ba.book, seq, update.ts, "panic", 94)
              ELSE IF debug /\ crossed(ba.book)
                THEN Outcome(ba.book, seq, update.ts, "panic", 105)
                ELSE Outcome(ba.book, seq, update.ts, "true", line)

\* BookManager::handle_book_update; debug is cfg!(debug_assertions)
handle_book_update(self, update, update_type, debug) ==
  IF update.prev_seq_id = None
    THEN Outcome(self.book, self.last_seq, self.last_exch_ts, "panic", 23)
  ELSE IF update.seq_id < Unwrap(update.prev_seq_id)
    THEN Outcome(self.book, self.last_seq, self.last_exch_ts, "panic", 26)
  ELSE IF should_update(self, update, update_type)
    THEN commit(self, update, update_type, debug, decide(self, update, update_type))
    ELSE Outcome(self.book, self.last_seq, self.last_exch_ts, "false",
                 decide(self, update, update_type))

\* ------------------------------------------------------------- the inputs
Prices == 1..MaxPrice
Sizes == 0..MaxSize
PriceStrs == {ToString(n) : n \in Prices}
SizeStrs == {ToString(n) : n \in Sizes}
LevelStrs == {Level(p, s) : p \in PriceStrs, s \in SizeStrs}

SeqIds == 1..MaxSeq
PrevSeqIds == {None} \cup {Some(n) : n \in 0..MaxSeq}
Timestamps == {None} \cup {Some(n) : n \in 1..MaxTs}

\* level arrays of an exact length, prices ascending (no price twice)
LevelArrays(n) == {ls \in [1..n -> LevelStrs] :
                     \A i, j \in 1..n : i < j => FromStr[ls[i].price] < FromStr[ls[j].price]}

\* the bid and ask arrays of one message, at most MaxLevels levels in all
Depths ==
  UNION {LevelArrays(i) \X LevelArrays(j) :
           <<i, j>> \in {<<m, n>> \in (0..MaxLevels) \X (0..MaxLevels) : m + n <= MaxLevels}}

\* messages that differ in their arrays, as a feed in good order numbers and
\* stamps them
DepthUpdates ==
  {BookUpdate(seq, Some(seq - 1), Some(1), d[1], d[2]) : seq \in SeqIds, d \in Depths}

\* messages that differ in numbering and stamping: a few arrays, with the ".0"
\* spelling, a zero and a negative size, and a price that is no decimal
FewDepths ==
  { <<(<<>>), (<<>>)>>,
    <<(<<Level("1", "1")>>), (<<Level("3.0", "2")>>)>>,
    <<(<<Level("2.0", "-1")>>), (<<Level("2", "1")>>)>>,
    <<(<<Level("3", "0")>>), (<<Level("1.0", "2")>>)>>,
    <<(<<Level("1", "1")>>), (<<Level("", "1")>>)>> }

SeqUpdates ==
  {BookUpdate(seq, prev, ts, d[1], d[2]) :
     seq \in SeqIds, prev \in PrevSeqIds, ts \in Timestamps, d \in FewDepths}

Updates == DepthUpdates \cup SeqUpdates

\* a manager together with the values its calls have returned, none so far
NewRun == [m |-> Outcome(EmptyBook, None, None, "none", 0), rets |-> <<>>]

\* --------------------------------------------------------------- the state
VARIABLES
  book,              \* BookManager.book / a standalone OrderBook
  last_seq,          \* BookManager.last_seq
  last_exch_ts,      \* BookManager.last_exch_ts
  debug_assertions,  \* whether the build checks debug_assert!
  ret,               \* what the last handle_book_update call did: "none" before
                     \* any call, "true", "false" or "panic"
  pc,                \* the line that decided that call (0 before any call)
  call_type,         \* the update_type of that call
  managers,          \* two more BookManager instances, each with the values its
                     \* calls returned so far
  streams,           \* the messages each of the two is to be fed, in order
  conns,             \* WebsocketSession::conns(): the configured channels
  at,                \* where WebsocketSession::start is: "subscribe" (the for
                     \* loop), "loop" (the head of the read loop) or "panic"
  conn_i,            \* the channel the for loop of start is to subscribe next
  elapsed,           \* last_ping.elapsed(), in ticks of the clock
  log                \* what start has done so far with its client and its
                     \* handler, in order

session == <<conns, at, conn_i, elapsed, log>>

vars == <<book, last_seq, last_exch_ts, debug_assertions, ret, pc, call_type,
          managers, streams, conns, at, conn_i, elapsed, log>>

\* a session with no channel, on which start has not run
NotStarted ==
  /\ conns = <<>>
  /\ at = "subscribe"
  /\ conn_i = 1
  /\ elapsed = 0
  /\ log = <<>>

self == [book |-> book, last_seq |-> last_seq, last_exch_ts |-> last_exch_ts]

Init ==
  /\ book = EmptyBook
  /\ last_seq = None
  /\ last_exch_ts = None
  /\ debug_assertions \in BOOLEAN
  /\ ret = "none"
  /\ pc = 0
  /\ call_type = "none"
  /\ managers = <<NewRun, NewRun>>
  /\ streams = <<(<<>>), (<<>>)>>
  /\ NotStarted

\* a call of handle_book_update; a panic ends the process
HandleBookUpdate(update, update_type) ==
  /\ ret # "panic"
  /\ \E r \in {handle_book_update(self, update, update_type, debug_assertions)} :
         /\ book' = r.book
         /\ last_seq' = r.last_seq
         /\ last_exch_ts' = r.last_exch_ts
         /\ ret' = r.ret
         /\ pc' = r.pc
  /\ call_type' = update_type
  /\ UNCHANGED <<debug_assertions, managers, streams>>
  /\ UNCHANGED session

Next == \E update \in Updates, update_type \in BookUpdateType :
          HandleBookUpdate(update, update_type)

Spec == Init /\ [][Next]_vars

\* a direct call of OrderBook::handle_level (the method is public)
HandleLevel(price, size, side, bbo) ==
  /\ ret # "panic"
  /\ book' = handle_level(book, price, size, side, bbo)
  /\ UNCHANGED <<last_seq, last_exch_ts, debug_assertions, ret, pc, call_type,
                 managers, streams>>
  /\ UNCHANGED session

LevelSizes == (-1)..MaxSize

NextBook == \E price \in Prices, size \in LevelSizes, side \in Sides, bbo \in BOOLEAN :
              HandleLevel(price, size, side, bbo)

\* an OrderBook on its own
SpecBook == Init /\ [][NextBook]_vars

\* a ladder that both kinds of call reach; the ladder's variety comes from the
\* direct calls, so the messages are the ones that differ in numbering
NextSeq == \E update \in SeqUpdates, update_type \in BookUpdateType :
             HandleBookUpdate(update, update_type)
NextAll == NextSeq \/ NextBook
SpecAll == Init /\ [][NextAll]_vars

\* ------------------------------------------------- two managers side by side
MaxStream == 2

\* one call of handle_book_update on the manager of run with the message and
\* kind of ev; a manager whose call has panicked takes no further call
Call(run, ev, debug) ==
  IF run.m.ret = "panic" THEN run
  ELSE LET r == handle_book_update(run.m, ev[1], ev[2], debug)
       IN  [m |-> r, rets |-> Append(run.rets, r.ret)]

\* the messages of the streams, each with its kind: a Snapshot, Diffs that
\* arrive in order, twice, late or before the Snapshot, and a BBO message
\* without prev_seq_id
StreamEvents ==
  {<<BookUpdate(1, Some(0), Some(1), <<Level("1", "1")>>, <<Level("3.0", "2")>>), Snapshot>>,
   <<BookUpdate(1, None, Some(1), <<Level("2", "1")>>, <<Level("3", "1")>>), BBO>>}
  \cup {<<BookUpdate(seq, Some(seq - 1), Some(1), <<Level("2", "1")>>, <<>>), Diff>> :
          seq \in SeqIds}
Streams == UNION {[1..n -> StreamEvents] : n \in 0..MaxStream}

InitTwo ==
  /\ book = EmptyBook
  /\ last_seq = None
  /\ last_exch_ts = None
  /\ debug_assertions \in BOOLEAN
  /\ ret = "none"
  /\ pc = 0
  /\ call_type = "none"
  /\ managers = <<NewRun, NewRun>>
  /\ streams \in Streams \X Streams
  /\ NotStarted

\* the number of messages of its stream that manager i has been fed
Fed(i) == Len(managers[i].rets)

\* HandleNext with one OrderBook behind both managers: the ladder the call
\* leaves is the ladder of the other manager too
HandleNext_shared_book(i) ==
  /\ managers[i].m.ret # "panic"
  /\ Fed(i) < Len(streams[i])
  /\ \E run \in {Call(managers[i], streams[i][Fed(i) + 1], debug_assertions)} :
       managers' = [managers EXCEPT ![i] = run, ![3 - i].m.book = run.m.book]
  /\ UNCHANGED <<book, last_seq, last_exch_ts, debug_assertions, ret, pc, call_type,
                 streams>>
  /\ UNCHANGED session

\* The next message of stream i is handled by manager i: the call has
\* `&mut self` of that manager and nothing else to write to.
HandleNext(i) ==
  /\ managers[i].m.ret # "panic"
  /\ Fed(i) < Len(streams[i])
  /\ \E run \in {Call(managers[i], streams[i][Fed(i) + 1], debug_assertions)} :
       managers' = [managers EXCEPT ![i] = run]
  /\ UNCHANGED <<book, last_seq, last_exch_ts, debug_assertions, ret, pc, call_type,
                 streams>>
  /\ UNCHANGED session

NextTwo == \E i \in 1..2 : HandleNext(i)
SpecTwo == InitTwo /\ [][NextTwo]_vars

\* ------------------------------------------------------ the blocking session
MaxConns == 2    \* the most channels a session is configured with
MaxReads == 2    \* the most client.next() calls of a run
MaxTicks == 3    \* last_ping.elapsed() is followed up to this many ticks

PingMillis == 5000   \* Duration::from_millis(5000)
TickMillis == PingMillis \div 2   \* the length of a tick of the clock

\* Result<T>: Ok(value) or Err(error), an Error being a variant of the enum
\* (Tungstenite, Io, Other), whether it carries a std::io::Error, and the
\* kind of that one (or of the tungstenite error)
Ok(value) ==
  [ok |-> TRUE, variant |-> "-", io |-> FALSE, kind |-> "-", value |-> value]
Err(variant, io, kind) ==
  [ok |-> FALSE, variant |-> variant, io |-> io, kind |-> kind, value |-> "-"]

\* what WebsocketClient::next may return
NextResults ==
  { Ok("Data"),
    Err("Tungstenite", TRUE, "WouldBlock"),
    Err("Tungstenite", TRUE, "BrokenPipe"),
    Err("Tungstenite", FALSE, "ConnectionClosed"),
    Err("Io", TRUE, "WouldBlock"),
    Err("Other", FALSE, "unknown message") }

\* what WebsocketClient::send may return
SendResults == { Ok("()"), Err("Tungstenite", FALSE, "ConnectionClosed") }

\* the channels: Books, Books5 and BboTbt, of one instrument
Channels == {"books", "books5", "bbo-tbt"}
ConnLists == UNION {[1..n -> Channels] : n \in 0..MaxConns}

\* WebsocketChannel::subscribe_message: the JSON text of the request (the
\* order of its keys is serde_json's)
subscribe_message(channel) ==
  CASE channel = "books" ->
         "{\"op\":\"subscribe\",\"args\":[{\"channel\":\"books\",\"instId\":\"BTC-USDT\"}]}"
    [] channel = "books5" ->
         "{\"op\":\"subscribe\",\"args\":[{\"channel\":\"books5\",\"instId\":\"BTC-USDT\"}]}"
    [] channel = "bbo-tbt" ->
         "{\"op\":\"subscribe\",\"args\":[{\"channel\":\"bbo-tbt\",\"instId\":\"BTC-USDT\"}]}"

\* the entries of the log: client.send(msg) with what it returned,
\* client.next() with what it returned and last_ping.elapsed() in ms as the
\* iteration found it, and handler(res)
SendEv(msg, res) == [ev |-> "send", msg |-> msg, res |-> res, waited |-> 0]
NextEv(res, waited) == [ev |-> "next", msg |-> "-", res |-> res, waited |-> waited]
HandlerEv(res) == [ev |-> "handler", msg |-> "-", res |-> res, waited |-> 0]

Reads(l) == Len(SelectSeq(l, LAMBDA e : e.ev = "next"))

\* the guard of the arm that backs off: a tungstenite I/O error of kind
\* WouldBlock
would_block(res) ==
  ~res.ok /\ res.variant = "Tungstenite" /\ res.io /\ res.kind = "WouldBlock"

\* the match on client.next(): what it adds to the log
dispatch(res) == IF would_block(res) THEN <<>> ELSE <<HandlerEv(res)>>

\* last_ping.elapsed() > Duration::from_millis(5000)
ping_due(ms) == ms > PingMillis

InitSession ==
  /\ book = EmptyBook
  /\ last_seq = None
  /\ last_exch_ts = None
  /\ debug_assertions \in BOOLEAN
  /\ ret = "none"
  /\ pc = 0
  /\ call_type = "none"
  /\ managers = <<NewRun, NewRun>>
  /\ streams = <<(<<>>), (<<>>)>>
  /\ conns \in ConnLists
  /\ at = "subscribe"
  /\ conn_i = 1
  /\ elapsed = 0
  /\ log = <<>>

book_vars == <<book, last_seq, last_exch_ts, debug_assertions, ret, pc, call_type,
               managers, streams>>

\* Subscribe that leaves the for loop at the first subscribe that fails
Subscribe_stop_at_error(res) ==
  /\ at = "subscribe"
  /\ conn_i <= Len(conns)
  /\ log' = log \o <<SendEv(subscribe_message(conns[conn_i]), res)>>
                \o (IF res.ok THEN <<>> ELSE <<HandlerEv(res)>>)
  /\ conn_i' = IF res.ok THEN conn_i + 1 ELSE Len(conns) + 1
  /\ UNCHANGED <<conns, at, elapsed>>
  /\ UNCHANGED book_vars

\* one turn of the for loop of start: conn.subscribe(client), which sends the
\* channel's subscribe message and returns res, and handler(Err(err)) if that
\* is an error
Subscribe(res) ==
  /\ at = "subscribe"
  /\ conn_i <= Len(conns)
  /\ log' = log \o <<SendEv(subscribe_message(conns[conn_i]), res)>>
                \o (IF res.ok THEN <<>> ELSE <<HandlerEv(res)>>)
  /\ conn_i' = conn_i + 1
  /\ UNCHANGED <<conns, at, elapsed>>
  /\ UNCHANGED book_vars

\* the for loop is over: Backoff::new() and last_ping = Instant::now()
EnterLoop ==
  /\ at = "subscribe"
  /\ conn_i > Len(conns)
  /\ at' = "loop"
  /\ elapsed' = 0
  /\ UNCHANGED <<conns, conn_i, log>>
  /\ UNCHANGED book_vars

\* the clock advances while the loop runs
Tick ==
  /\ at = "loop"
  /\ Reads(log) < MaxReads
  /\ elapsed < MaxTicks
  /\ elapsed' = elapsed + 1
  /\ UNCHANGED <<conns, at, conn_i, log>>
  /\ UNCHANGED book_vars

\* one iteration of the loop: the ping if it is due (a ping that cannot be
\* sent panics), then client.next(), which returns res, and the match on it
Iterate(ping, res) ==
  /\ at = "loop"
  /\ Reads(log) < MaxReads
  /\ IF ping_due(elapsed * TickMillis)
       THEN IF ping.ok
              THEN /\ log' = log \o <<SendEv("ping", ping),
                                       NextEv(res, elapsed * TickMillis)>>
                                 \o dispatch(res)
                   /\ elapsed' = 0
                   /\ at' = at
              ELSE /\ log' = Append(log, SendEv("ping", ping))
                   /\ at' = "panic"
                   /\ elapsed' = elapsed
       ELSE /\ log' = Append(log, NextEv(res, elapsed * TickMillis)) \o dispatch(res)
            /\ UNCHANGED <<at, elapsed>>
  /\ UNCHANGED <<conns, conn_i>>
  /\ UNCHANGED book_vars

NextSession ==
  \/ \E res \in SendResults : Subscribe(res)
  \/ EnterLoop
  \/ Tick
  \/ \E ping \in SendResults, res \in NextResults : Iterate(ping, res)

SpecSession == InitSession /\ [][NextSession]_vars

\* ------------------------------------------------------------ vocabulary
\* what a call of handle_book_update would do in the current state
Result(update, update_type) ==
  handle_book_update(self, update, update_type, debug_assertions)

Alive == ret # "panic"
Synced == IsSome(last_seq)
Uninitialized == last_seq = None

\* the message passes the sequence-reset check of the specification: its
\* prev_seq_id is absent or not above its seq_id
NoReset(update) ==
  update.prev_seq_id = None \/ update.seq_id >= Unwrap(update.prev_seq_id)

\* every price and size is a decimal, and a BBO message has one level a side
WellShaped(update, update_type) ==
  /\ \A i \in 1..Len(update.bids) :
       IsSome(parse(update.bids[i].price)) /\ IsSome(parse(update.bids[i].size))
  /\ \A i \in 1..Len(update.asks) :
       IsSome(parse(update.asks[i].price)) /\ IsSome(parse(update.asks[i].size))
  /\ update_type = BBO => Len(update.bids) = 1 /\ Len(update.asks) = 1

\* the call returned false from the given line and changed nothing
DroppedAt(r, line) ==
  /\ r.ret = "false"
  /\ r.pc = line
  /\ r.book = book
  /\ r.last_seq = last_seq
  /\ r.last_exch_ts = last_exch_ts

Positive(m) == \A k \in DOMAIN m : m[k] > 0

\* ----------------------------------------------------------------- claims

\* C1 (monotonic acceptance): once a Snapshot has been applied, every message
\* whose seq_id is above last_seq and not below its own prev_seq_id is applied
\* (the call returns true) and last_seq becomes its seq_id.
C1_MonotonicAcceptance ==
  (Alive /\ Synced) =>
    \A update \in Updates, update_type \in BookUpdateType :
      ( /\ WellShaped(update, update_type)
        /\ IsSome(update.prev_seq_id)
        /\ update.seq_id >= Unwrap(update.prev_seq_id)
        /\ update.seq_id > Unwrap(last_seq) )
      => \A r \in {Result(update, update_type)} :
           r.ret = "true" /\ r.last_seq = Some(update.seq_id)

\* C2 (duplicate idempotence): in the Synced state a message whose seq_id
\* equals last_seq, of any kind and with any levels, is dropped as a duplicate
\* (false, decided at line 33) and the ladder, last_seq and last_exch_ts are
\* what they were.
C2_DuplicateDropped ==
  (Alive /\ Synced) =>
    \A update \in Updates, update_type \in BookUpdateType :
      (NoReset(update) /\ update.seq_id = Unwrap(last_seq))
      => DroppedAt(Result(update, update_type), 33)

\* C3 (stale rejection): in the Synced state a message whose seq_id is below
\* last_seq and not below its prev_seq_id is dropped as stale (false, decided
\* at line 39) and nothing changes.
C3_StaleDropped ==
  (Alive /\ Synced) =>
    \A update \in Updates, update_type \in BookUpdateType :
      (NoReset(update) /\ update.seq_id < Unwrap(last_seq))
      => DroppedAt(Result(update, update_type), 39)

\* C4 (no apply while Uninitialized): while last_seq is None every Diff or BBO
\* message is dropped (false, decided at line 43), the ladder stays empty and
\* last_seq and last_exch_ts stay None.
C4_AwaitingSnapshot ==
  (Alive /\ Uninitialized) =>
    /\ book = EmptyBook
    /\ last_exch_ts = None
    /\ \A update \in Updates, update_type \in {Diff, BBO} :
         NoReset(update) => DroppedAt(Result(update, update_type), 43)

\* C5 (sequence reset): in any state a message with prev_seq_id present and
\* seq_id < prev_seq_id makes the call return (the reset outcome, no panic),
\* applies none of its levels and leaves last_seq None.
C5_SequenceReset ==
  Alive =>
    \A update \in Updates, update_type \in BookUpdateType :
      (IsSome(update.prev_seq_id) /\ update.seq_id < Unwrap(update.prev_seq_id))
      => \A r \in {Result(update, update_type)} :
           r.ret # "panic" /\ r.book = book /\ r.last_seq = None

\* the level a BBO message reports for a side, parsed
BboPrice(ls) == Unwrap(parse(ls[1].price))
BboSize(ls) == Unwrap(parse(ls[1].size))

\* m holds the single level price -> size
Single(m, price, size) == DOMAIN m = {price} /\ m[price] = size

\* after is before without the keys in Gone, plus price -> size
ClampedTo(after, before, Gone, price, size) ==
  /\ DOMAIN after = ((DOMAIN before) \ Gone) \cup {price}
  /\ after[price] = size
  /\ \A k \in (DOMAIN after) \ {price} : after[k] = before[k]

ShapePanicLines == {63, 69, 75, 81, 86, 94}

\* C7 (no process-fatal outcome): handle_book_update returns for every
\* well-shaped message; it never panics on one.
C7_NoPanic == ret = "panic" => pc \in ShapePanicLines

\* C8 (stored quantities are positive): every level stored in bids or asks has
\* a quantity above 0, after any sequence of handle_level and
\* handle_book_update calls.
C8_StoredQuantitiesPositive == Positive(book.bids) /\ Positive(book.asks)

\* C8 witness: a message was applied by the manager and both sides hold levels
C8_Witness ==
  /\ ret = "true"
  /\ Cardinality(DOMAIN book.bids) >= 2
  /\ DOMAIN book.asks # {}

\* after is before without the key price
Removed(after, before, price) ==
  /\ DOMAIN after = (DOMAIN before) \ {price}
  /\ \A k \in DOMAIN after : after[k] = before[k]

\* o is the level of m at the highest price, or None when m is empty
IsHighest(o, m) ==
  IF DOMAIN m = {} THEN o = None
  ELSE /\ IsSome(o)
       /\ Unwrap(o)[1] \in DOMAIN m
       /\ \A k \in DOMAIN m : k <= Unwrap(o)[1]
       /\ Unwrap(o)[2] = m[Unwrap(o)[1]]

\* o is the level of m at the lowest price, or None when m is empty
IsLowest(o, m) ==
  IF DOMAIN m = {} THEN o = None
  ELSE /\ IsSome(o)
       /\ Unwrap(o)[1] \in DOMAIN m
       /\ \A k \in DOMAIN m : k >= Unwrap(o)[1]
       /\ Unwrap(o)[2] = m[Unwrap(o)[1]]

\* C9 (zero quantity removes): handle_level(p, q, side, false) with q <= 0
\* removes the level at p from that side if it is stored and changes nothing if
\* it is not; best_bid() afterwards is the highest bid left (none if no bid is
\* left), best_ask() the lowest ask left.
C9_ZeroQuantityRemoves ==
  \A price \in Prices, size \in {q \in LevelSizes : q <= 0}, side \in Sides :
    \A r \in {handle_level(book, price, size, side, FALSE)} :
      /\ side = Buy => Removed(r.bids, book.bids, price) /\ r.asks = book.asks
      /\ side = Sell => Removed(r.asks, book.asks, price) /\ r.bids = book.bids
      /\ (side = Buy /\ price \notin DOMAIN book.bids) => r = book
      /\ (side = Sell /\ price \notin DOMAIN book.asks) => r = book
      /\ IsHighest(best_bid(r), r.bids)
      /\ IsLowest(best_ask(r), r.asks)

\* C9 witness: the best bid has a bid below it, and removing it with size 0 makes
\* that one the best bid
C9_Witness ==
  \E price \in DOMAIN book.bids :
    /\ \A k \in DOMAIN book.bids : k <= price
    /\ Cardinality(DOMAIN book.bids) >= 2
    /\ \E o \in {best_bid(handle_level(book, price, 0, Buy, FALSE))} :
         IsSome(o) /\ Unwrap(o)[1] < price

Feed(m, update, update_type) ==
  IF m.ret = "panic" THEN m
  ELSE handle_book_update(m, update, update_type, debug_assertions)

\* The messages of the end-to-end scenario, in the price range of the model:
\* the prices 9, 10, 11 are written 1, 2, 3, the bid sizes 3 and 5 are written
\* 1 and 2, the ask size is 2.  The Snapshot carries no prev_seq_id; the
\* scenario names no timestamp and every message is given one.
ScenarioSnapshot ==
  BookUpdate(1, None, Some(1), <<Level("2", "2"), Level("1", "1")>>, <<Level("3", "2")>>)
ScenarioDiff == BookUpdate(2, Some(1), Some(1), <<Level("2", "0")>>, <<>>)
ScenarioStale == BookUpdate(1, Some(0), Some(1), <<Level("2", "0")>>, <<>>)

\* C11 (end-to-end scenario): from an empty reconciler the Snapshot with
\* seq_id 1 and no prev_seq_id is applied and leaves best bid (10, 5) and best
\* ask (11, 2); the Diff with seq_id 2 is applied and leaves best bid (9, 3);
\* the same Diff again is dropped as a duplicate with best bid still (9, 3); a
\* Diff with seq_id 1 is then dropped as stale.
C11_EndToEnd ==
  (Alive /\ Uninitialized /\ book = EmptyBook) =>
    \A r1 \in {Feed(Outcome(book, last_seq, last_exch_ts, "none", 0),
                    ScenarioSnapshot, Snapshot)} :
      /\ r1.ret = "true"
      /\ best_bid(r1.book) = Some(<<2, 2>>)
      /\ best_ask(r1.book) = Some(<<3, 2>>)
      /\ \A r2 \in {Feed(r1, ScenarioDiff, Diff)} :
           /\ r2.ret = "true"
           /\ best_bid(r2.book) = Some(<<1, 1>>)
           /\ \A r3 \in {Feed(r2, ScenarioDiff, Diff)} :
                /\ r3.ret = "false" /\ r3.pc = 33
                /\ best_bid(r3.book) = Some(<<1, 1>>)
                /\ \A r4 \in {Feed(r3, ScenarioStale, Diff)} :
                     r4.ret = "false" /\ r4.pc = 39

\* the message is one the reconciler accepts in the current state: it passes
\* the sequence-reset check with its prev_seq_id present, carries a timestamp,
\* is well shaped, and the Uninitialized/Synced rules say apply
Accepted(update, update_type) ==
  /\ IsSome(update.prev_seq_id)
  /\ update.seq_id >= Unwrap(update.prev_seq_id)
  /\ IsSome(update.ts)
  /\ WellShaped(update, update_type)
  /\ should_update(self, update, update_type)

\* C12 (a crossed result never discards the apply): when an accepted message
\* leaves the ladder crossed, the call still returns true, and last_seq and
\* last_exch_ts are those of the message; the process goes on.
C12_CrossedStillApplied ==
  Alive =>
    \A update \in Updates, update_type \in BookUpdateType :
      Accepted(update, update_type) =>
        \A r \in {Result(update, update_type)} :
          crossed(r.book) =>
            /\ r.ret = "true"
            /\ r.last_seq = Some(update.seq_id)
            /\ r.last_exch_ts = update.ts

\* C13 (absent prev_seq_id is not a reset): a well-shaped, timestamped message
\* without prev_seq_id skips the sequence-reset check and is decided by the
\* Uninitialized/Synced rules alone: a Snapshot while last_seq is None, or a
\* seq_id above last_seq, is taken (last_seq becomes its seq_id, no panic at
\* the check); any other is dropped with nothing changed.
C13_AbsentPrevIsNoReset ==
  Alive =>
    \A update \in Updates, update_type \in BookUpdateType :
      (update.prev_seq_id = None /\ IsSome(update.ts) /\ WellShaped(update, update_type))
      => \A r \in {Result(update, update_type)} :
           IF should_update(self, update, update_type)
             THEN r.pc \notin {23, 26} /\ r.last_seq = Some(update.seq_id)
             ELSE DroppedAt(r, decide(self, update, update_type))

\* the part of C14 about the calls that return: after true the two fields are
\* the message's, after false they are unchanged
RecordsOnReturn(update, r) ==
  /\ r.ret = "true" =>
       r.last_seq = Some(update.seq_id) /\ r.last_exch_ts = update.ts
  /\ r.ret = "false" =>
       r.last_seq = last_seq /\ r.last_exch_ts = last_exch_ts

\* C14 (accepted messages record sequence and time): whenever the call returns
\* true, last_seq is the message's seq_id and last_exch_ts its ts; whenever it
\* returns false both are unchanged; and a message without ts that the
\* sequence rules accept is applied too, leaving last_exch_ts None.
C14_RecordsSeqAndTs ==
  Alive =>
    \A update \in Updates, update_type \in BookUpdateType :
      \A r \in {Result(update, update_type)} :
        /\ RecordsOnReturn(update, r)
        /\ ( /\ IsSome(update.prev_seq_id)
             /\ update.seq_id >= Unwrap(update.prev_seq_id)
             /\ WellShaped(update, update_type)
             /\ should_update(self, update, update_type)
             /\ update.ts = None )
           => /\ r.ret = "true"
              /\ r.last_seq = Some(update.seq_id)
              /\ r.last_exch_ts = None

\* after is before with price -> size set and every other level as it was
SetIn(after, before, price, size) ==
  /\ price \in DOMAIN after
  /\ after[price] = size
  /\ \A k \in (DOMAIN after) \ {price} : k \in DOMAIN before /\ after[k] = before[k]

\* C15 (best-of-side queries): in every ladder state best_bid() is the stored
\* bid at the highest price and best_ask() the stored ask at the lowest price,
\* each with the quantity stored for that price, and each is None exactly when
\* its side is empty.  The quantity stored for a price is the one most
\* recently set: handle_level with a positive size stores that size at that
\* price and leaves the quantity of every other stored level as it was.
C15_BestOfSide ==
  /\ IsHighest(best_bid(book), book.bids)
  /\ IsLowest(best_ask(book), book.asks)
  /\ best_bid(book) = None <=> DOMAIN book.bids = {}
  /\ best_ask(book) = None <=> DOMAIN book.asks = {}
  /\ \A price \in Prices, size \in 1..MaxSize, side \in Sides, bbo \in BOOLEAN :
       \A r \in {handle_level(book, price, size, side, bbo)} :
         /\ side = Buy => SetIn(r.bids, book.bids, price, size) /\ r.asks = book.asks
         /\ side = Sell => SetIn(r.asks, book.asks, price, size) /\ r.bids = book.bids

\* C15 witness: both sides hold several levels with different quantities, and
\* the best bid is not the lowest bid
C15_Witness ==
  /\ Cardinality(DOMAIN book.bids) >= 2
  /\ Cardinality(DOMAIN book.asks) >= 2
  /\ \E k \in DOMAIN book.bids : k < Unwrap(best_bid(book))[1]
                                 /\ book.bids[k] # Unwrap(best_bid(book))[2]
  /\ \E k \in DOMAIN book.asks : k > Unwrap(best_ask(book))[1]
                                 /\ book.asks[k] # Unwrap(best_ask(book))[2]

\* manager i after the first n messages of its stream, with no other manager
RECURSIVE Alone(_, _)
Alone(i, n) ==
  IF n = 0 THEN NewRun ELSE Call(Alone(i, n - 1), streams[i][n], debug_assertions)

\* nothing more will be fed to manager i
Ended(i) == managers[i].m.ret = "panic" \/ Fed(i) = Len(streams[i])

KeptExactly(after, before, Keep) ==
  /\ DOMAIN after = (DOMAIN before) \cap Keep
  /\ \A k \in DOMAIN after : after[k] = before[k]

C18_BboSetsTopOfBook ==
  /\ Alive =>
       \A update \in Updates :
         ( /\ WellShaped(update, BBO)
           /\ BboSize(update.bids) > 0
           /\ BboSize(update.asks) > 0 )
         => \A r \in {Result(update, BBO)} :
              (r.ret = "true" \/ r.pc = 105) =>
                /\ best_bid(r.book) =
                     Some(<<BboPrice(update.bids), BboSize(update.bids)>>)
                /\ best_ask(r.book) =
                     Some(<<BboPrice(update.asks), BboSize(update.asks)>>)
  /\ \A price \in Prices, size \in 1..MaxSize, side \in Sides :
       \A r \in {handle_level(book, price, size, side, TRUE)} :
         /\ r = update_level(handle_bbo(book, price, size, side), price, size, side)
         /\ side = Buy => best_bid(r) = Some(<<price, size>>)
         /\ side = Sell => best_ask(r) = Some(<<price, size>>)

\* C18 witness: a BBO message that the manager applies reports a bid below the
\* best bid stored and an ask above the best ask stored, and its two levels
\* are the top of the book afterwards
C18_Witness ==
  /\ Alive
  /\ \E update \in Updates :
       /\ WellShaped(update, BBO)
       /\ BboSize(update.bids) > 0
       /\ BboSize(update.asks) > 0
       /\ IsSome(best_bid(book)) /\ Unwrap(best_bid(book))[1] > BboPrice(update.bids)
       /\ IsSome(best_ask(book)) /\ Unwrap(best_ask(book))[1] < BboPrice(update.asks)
       /\ \E r \in {Result(update, BBO)} :
            /\ r.ret = "true"
            /\ Unwrap(best_bid(r.book))[1] = BboPrice(update.bids)
            /\ Unwrap(best_ask(r.book))[1] = BboPrice(update.asks)

\* the prices a level array mentions
Mentioned(ls) == {Unwrap(parse(ls[i].price)) : i \in 1..Len(ls)}

\* the levels at the prices outside Touched are in after what they are in before
SameOutside(after, before, Touched) ==
  \A k \in ((DOMAIN after) \cup (DOMAIN before)) \ Touched :
    k \in DOMAIN after /\ k \in DOMAIN before /\ after[k] = before[k]

\* C19 (full-depth updates never clamp): after an applied Diff or Snapshot
\* every price that the message's bids do not mention is stored or not on the
\* bid side as before, with the quantity it had, and likewise the asks; only
\* the prices listed change.
C19_DepthUpdatesNeverClamp ==
  Alive =>
    \A update \in Updates, update_type \in {Diff, Snapshot} :
      WellShaped(update, update_type) =>
        \A r \in {Result(update, update_type)} :
          (r.ret = "true" \/ r.pc = 105) =>
            /\ SameOutside(r.book.bids, book.bids, Mentioned(update.bids))
            /\ SameOutside(r.book.asks, book.asks, Mentioned(update.asks))

\* C19 witness: a Diff that the manager applies stores a bid below a stored bid
\* and an ask above a stored ask, and those better levels are still stored
C19_Witness ==
  /\ Alive
  /\ \E update \in Updates :
       /\ WellShaped(update, Diff)
       /\ Len(update.bids) = 1 /\ BboSize(update.bids) > 0
       /\ Len(update.asks) = 1 /\ BboSize(update.asks) > 0
       /\ \E r \in {Result(update, Diff)} :
            /\ r.ret = "true"
            /\ \E k \in DOMAIN book.bids :
                 k > BboPrice(update.bids) /\ k \in DOMAIN r.book.bids
            /\ \E k \in DOMAIN book.asks :
                 k < BboPrice(update.asks) /\ k \in DOMAIN r.book.asks

\* C20 (a Snapshot mutates like a Diff): in the Synced state, for every ladder
\* and every message, the call with the message tagged Snapshot and the call
\* with it tagged Diff end alike, with the same ladder, last_seq and
\* last_exch_ts; and an applied Snapshot does not clear the ladder: the levels
\* stored before it at prices it does not mention are still stored, unchanged.
C20_SnapshotLikeDiff ==
  (Alive /\ Synced) =>
    \A update \in Updates :
      \A r \in {Result(update, Snapshot)} :
        /\ r = Result(update, Diff)
        /\ (WellShaped(update, Snapshot) /\ r.ret = "true") =>
             /\ SameOutside(r.book.bids, book.bids, Mentioned(update.bids))
             /\ SameOutside(r.book.asks, book.asks, Mentioned(update.asks))

\* C20 witness: in the Synced state a Snapshot is applied and a bid and an ask
\* stored before it, which it does not mention, are still stored
C20_Witness ==
  /\ Alive /\ Synced
  /\ \E update \in Updates :
       /\ WellShaped(update, Snapshot)
       /\ \E r \in {Result(update, Snapshot)} :
            /\ r.ret = "true"
            /\ r.book # book
            /\ \E k \in (DOMAIN book.bids) \ Mentioned(update.bids) : k \in DOMAIN r.book.bids
            /\ \E k \in (DOMAIN book.asks) \ Mentioned(update.asks) : k \in DOMAIN r.book.asks

\* C21 (no continuity check on acceptance): in the Synced state with last_seq
\* s, every well-shaped message with seq_id > s and seq_id >= prev_seq_id, of
\* any kind, is applied (the call returns true) and last_seq becomes its
\* seq_id, whether or not its prev_seq_id is s: the call ends as it does for
\* the same message with prev_seq_id s.
C21_NoContinuityCheck ==
  (Alive /\ Synced) =>
    \A update \in Updates, update_type \in BookUpdateType :
      ( /\ WellShaped(update, update_type)
        /\ IsSome(update.prev_seq_id)
        /\ update.seq_id >= Unwrap(update.prev_seq_id)
        /\ update.seq_id > Unwrap(last_seq) )
      => \A r \in {Result(update, update_type)} :
           /\ r.ret = "true"
           /\ r.last_seq = Some(update.seq_id)
           /\ r = Result([update EXCEPT !.prev_seq_id = last_seq], update_type)

\* the map holding the single level price -> size
OneLevel(price, size) == [k \in {price} |-> size]

\* ladders to put in place of the manager's: empty, crossed, and not crossed
OtherLadders ==
  { EmptyBook,
    [bids |-> OneLevel(MaxPrice, 1), asks |-> OneLevel(1, 1)],
    [bids |-> OneLevel(1, 1), asks |-> OneLevel(MaxPrice, 1)] }

\* C22 (acceptance never depends on the ladder): a manager with the same
\* last_seq and any other ladder, a crossed one included, ends the call on the
\* same message the same way (true, false), and a ladder crossed before the
\* call never makes a message refused that would otherwise be applied.
C22_LadderBlind ==
  Alive =>
    \A update \in Updates, update_type \in BookUpdateType :
      \A r \in {Result(update, update_type)} :
        \A other \in OtherLadders :
          handle_book_update([self EXCEPT !.book = other], update, update_type,
                             debug_assertions).ret = r.ret

\* C23 (initialization only by Snapshot): while last_seq is None the ladder is
\* empty; a call that makes last_seq Some is a call with a Snapshot, and it
\* applies that Snapshot (it returns true); and a Snapshot is taken then
\* whatever its seq_id.
C23_InitializedBySnapshot ==
  (Alive /\ Uninitialized) =>
    /\ book = EmptyBook
    /\ \A update \in Updates, update_type \in BookUpdateType :
         \A r \in {Result(update, update_type)} :
           /\ IsSome(r.last_seq) => update_type = Snapshot /\ r.ret = "true"
           /\ (update_type = Snapshot /\ NoReset(update) /\ WellShaped(update, Snapshot))
              => r.ret = "true" /\ r.last_seq = Some(update.seq_id)

\* C24 (recoverability after a sequence reset): once a call has met a message
\* with seq_id < prev_seq_id (line 26), the call has returned, and the next
\* well-shaped, timestamped Snapshot is applied whatever its seq_id, also one
\* not above the last_seq held before the reset.
C24_RecoversAfterReset ==
  pc = 26 =>
    /\ ret # "panic"
    /\ \A update \in Updates :
         ( /\ IsSome(update.prev_seq_id)
           /\ update.seq_id >= Unwrap(update.prev_seq_id)
           /\ IsSome(update.ts)
           /\ WellShaped(update, Snapshot) )
         => \A r \in {Result(update, Snapshot)} :
              r.ret = "true" /\ r.last_seq = Some(update.seq_id)

\* C25 (apply_level upsert and frame): handle_level(p, q, side, false) with
\* q > 0 leaves the level at p of that side stored with quantity exactly q,
\* whether or not a level was stored at p before; every other price of that
\* side and the whole opposite side are as before; and it does so for every
\* price, zero and negative ones included.
C25_UpsertAndFrame ==
  \A price \in Decimals, size \in 1..MaxSize :
    /\ \A r \in {handle_level(book, price, size, Buy, FALSE)} :
         /\ price \in DOMAIN r.bids /\ r.bids[price] = size
         /\ SameOutside(r.bids, book.bids, {price})
         /\ r.asks = book.asks
    /\ \A r \in {handle_level(book, price, size, Sell, FALSE)} :
         /\ price \in DOMAIN r.asks /\ r.asks[price] = size
         /\ SameOutside(r.asks, book.asks, {price})
         /\ r.bids = book.bids

\* C25 witness: a bid is stored with another quantity at a price that has bids
\* on both sides of it, asks are stored too, and handle_level overwrites it
C25_Witness ==
  \E price \in DOMAIN book.bids, size \in 1..MaxSize :
    /\ book.bids[price] # size
    /\ \E lo, hi \in DOMAIN book.bids : lo < price /\ price < hi
    /\ DOMAIN book.asks # {}
    /\ handle_level(book, price, size, Buy, FALSE).bids[price] = size

\* C26 (last_seq never moves backwards): in every call, once last_seq is Some
\* it stays Some and does not decrease; last_seq changes only in a call that
\* returns true, and a change of a Some value strictly increases it.
C26_LastSeqMonotone ==
  [][ /\ IsSome(last_seq) =>
           IsSome(last_seq') /\ Unwrap(last_seq') >= Unwrap(last_seq)
      /\ last_seq' # last_seq => ret' = "true" ]_vars

\* handle_level without the bbo flag: apply_level of the specification
ApplyLevel(b, price, size, side) == handle_level(b, price, size, side, FALSE)

\* C27 (apply_level is idempotent and last-write-wins): from every ladder,
\* applying a level change twice gives what applying it once gives; a change
\* to (p, q1) followed by a change to (p, q2) on the same side gives what the
\* second change alone gives; and two changes at different prices or on
\* different sides give the same ladder in either order.  The quantities
\* include zero and a negative one (removals).
C27_IdempotentLastWriteWins ==
  \A p1 \in Prices, q1 \in LevelSizes, s1 \in Sides :
    \A once \in {ApplyLevel(book, p1, q1, s1)} :
      /\ ApplyLevel(once, p1, q1, s1) = once
      /\ \A q2 \in LevelSizes :
           ApplyLevel(once, p1, q2, s1) = ApplyLevel(book, p1, q2, s1)
      /\ \A p2 \in Prices, q2 \in LevelSizes, s2 \in Sides :
           (p1 # p2 \/ s1 # s2) =>
             ApplyLevel(once, p2, q2, s2) =
               ApplyLevel(ApplyLevel(book, p2, q2, s2), p1, q1, s1)

\* C27 witness: a bid is stored at a price, with an ask at the same price and
\* another bid; overwriting the bid's quantity changes the ladder, and so does
\* removing the ask
C27_Witness ==
  \E price \in DOMAIN book.bids, size \in 1..MaxSize :
    /\ book.bids[price] # size
    /\ price \in DOMAIN book.asks
    /\ Cardinality(DOMAIN book.bids) >= 2
    /\ ApplyLevel(book, price, size, Buy) # book
    /\ ApplyLevel(ApplyLevel(book, price, size, Buy), price, 0, Sell) #
         ApplyLevel(book, price, size, Buy)

\* ------------------------------------------------ claims about the session
IsNext(e) == e.ev = "next"
IsHandler(e) == e.ev = "handler"
IsSubscribeSend(e) ==
  e.ev = "send" /\ e.msg \in {subscribe_message(c) : c \in Channels}

\* the place in the log of the first client.next() call, past the end of the
\* log if there is none yet
FirstNext ==
  IF \E i \in 1..Len(log) : IsNext(log[i])
    THEN CHOOSE i \in 1..Len(log) : IsNext(log[i]) /\ \A j \in 1..(i - 1) : ~IsNext(log[j])
    ELSE Len(log) + 1

\* the subscribe messages sent so far, in the order they were sent
Subscribed == [i \in 1..Len(SelectSeq(log, IsSubscribeSend)) |->
                 SelectSeq(log, IsSubscribeSend)[i].msg]
\* the subscribe messages of the first n configured channels, in channel order
Configured(n) == [i \in 1..n |-> subscribe_message(conns[i])]

\* C28 (the session subscribes before it reads): while start is in its for
\* loop no client.next() call has been made, the subscribe messages sent are
\* those of the channels before conn_i, each once and in channel order, and
\* start can go on (to the next channel or into the read loop) whatever the
\* subscribes returned; once the for loop is over the subscribe messages sent
\* are those of all configured channels, each once and in channel order, all
\* of them before the first client.next() call; and every subscribe that
\* failed is followed at once by handler(Err(err)) with its error.
C28_SubscribesBeforeReading ==
  /\ at = "subscribe" =>
       /\ FirstNext = Len(log) + 1
       /\ conn_i \in 1..(Len(conns) + 1)
       /\ Subscribed = Configured(conn_i - 1)
       /\ ENABLED (EnterLoop \/ \E res \in SendResults : Subscribe(res))
  /\ at # "subscribe" =>
       /\ Subscribed = Configured(Len(conns))
       /\ \A i \in 1..Len(log) : IsSubscribeSend(log[i]) => i < FirstNext
  /\ \A i \in 1..Len(log) :
       (IsSubscribeSend(log[i]) /\ ~log[i].res.ok) =>
         /\ i < Len(log)
         /\ log[i + 1] = HandlerEv(log[i].res)

\* C28 witness: two different channels, the subscribe of the first failed and
\* was reported, the second was subscribed all the same, and the loop has read
C28_Witness ==
  /\ Len(conns) = 2
  /\ conns[1] # conns[2]
  /\ at = "loop"
  /\ Len(log) >= 4
  /\ log[1] = SendEv(subscribe_message(conns[1]), Err("Tungstenite", FALSE, "ConnectionClosed"))
  /\ log[2] = HandlerEv(log[1].res)
  /\ log[3] = SendEv(subscribe_message(conns[2]), Ok("()"))
  /\ IsNext(log[4])

\* what client.next() has returned so far, and what the handler was given
\* since the first client.next() call, in order
Received == [i \in 1..Len(SelectSeq(log, IsNext)) |-> SelectSeq(log, IsNext)[i].res]
Delivered ==
  [i \in 1..Len(SelectSeq(SubSeq(log, FirstNext, Len(log)), IsHandler)) |->
     SelectSeq(SubSeq(log, FirstNext, Len(log)), IsHandler)[i].res]

\* an error that is a std::io::Error of kind WouldBlock, whichever variant of
\* Error carries it
WouldBlockIo(res) == ~res.ok /\ res.io /\ res.kind = "WouldBlock"
IsErr(res) == ~res.ok

\* C29 (delivery of the read loop): the handler was given, in receipt order
\* and once each, exactly the results of client.next() that are no WouldBlock
\* I/O error; the loop has not stopped once an error was delivered; and every
\* client.next() call made when more than 5000 ms had elapsed since the last
\* ping comes right after a "ping" that was sent.
C29_Delivery ==
  /\ Delivered = SelectSeq(Received, LAMBDA res : ~WouldBlockIo(res))
  /\ (\E i \in 1..Len(Delivered) : IsErr(Delivered[i])) => at = "loop"
  /\ \A i \in 1..Len(log) :
       (IsNext(log[i]) /\ log[i].waited > PingMillis) =>
         /\ i > 1
         /\ log[i - 1] = SendEv("ping", Ok("()"))

====
